---- MODULE Spec2Model ----
(***************************************************************************)
(* gb_emu: the LR35902 instruction executor (cpu.rs) and the memory        *)
(* management unit it drives (mmu.rs), as a state machine whose actions    *)
(* are CPU::step() and, in the specification with the interrupt side, the  *)
(* wake signal CPU::handle_interrupts().                                   *)
(*                                                                         *)
(* Arrays are kept sparse: wram, hram and the ROM bytes are functions on   *)
(* the indices that were set, every other index holding the fill value 0   *)
(* ([0; N] in MMU::new, vec![0x00; N] in main.rs).                         *)
(* Numbers are written in hexadecimal (\hFF) where the source does.        *)
(***************************************************************************)
EXTENDS Integers, Sequences, FiniteSets, TLC

VARIABLES
    regs,             \* CPU.regs : Registers
    mmu,              \* CPU.mmu  : MMU
    stopped,          \* CPU.stopped
    halted,           \* CPU.halted
    ime,              \* CPU.ime
    panicked,         \* the process was aborted by a Rust panic inside step()
    overflow_checks,  \* build profile: `+=`, `-=`, `+` panic on overflow (debug) or wrap (release)
    pre,              \* the CPU as it was when the last step() was called
    steps             \* number of step() calls made by the driver

vars == <<regs, mmu, stopped, halted, ime, panicked, overflow_checks, pre, steps>>

----------------------------------------------------------------------------
(* Bounds of the model *)

\* step() calls the driver makes (main.rs runs n_op of them)
MaxSteps == 5

\* the values <<a, b>> the generated programs load into A and B
ABPairs == {<<\h00, \h00>>, <<\h00, \hFF>>, <<\h0F, \h01>>, <<\h0F, \hF1>>,
            <<\h20, \h00>>, <<\h20, \hFF>>, <<\hFF, \h01>>, <<\hFF, \hFF>>}

\* 8-bit immediates / displacements of the instruction under test
ImmBytes == {\h00, \h01, \h11, \h7F, \h80, \hFF}

\* 16-bit immediates of the instruction under test: ROM, unmapped, WRAM,
\* mirror, mirror end, unmapped I/O, IF, HRAM, HRAM end, IE
ImmWords == {\h0105, \h1234, \h8000, \hC005, \hE005, \hFDFF, \hFE00,
             \hFF0F, \hFF80, \hFFFE, \hFFFF}

\* lengths of the ROM buffer handed to MMU::new
RomLens == {0, \h0103, \h8000}

\* addresses the generated programs point HL at: ROM (first byte and inside),
\* WRAM, mirror, unmapped, HRAM, IE (last address)
MemWords == {\h0000, \h0105, \hC005, \hE005, \hFE00, \hFF80, \hFFFF}

\* values the generated programs load into the register pairs before ADD HL
AddWords == {\h0000, \h0001, \h0800, \h0FFF, \h8000, \hFFFF}

\* offsets n the generated programs load into C for the zero-page forms:
\* unmapped I/O (first, around IF, last), IF, HRAM (first, last), IE
ZeroPageBytes == {\h00, \h0E, \h0F, \h10, \h7F, \h80, \hFE, \hFF}

\* values the generated programs store through the zero-page forms
ZeroPageValues == {\h00, \h5A, \hFF}

\* the valid packed-BCD bytes: both nibbles at most 9
BcdBytes == {16 * high + low : high \in 0..9, low \in 0..9}

\* values the generated programs load into A before DAA
DaaValues == {\h00, \h0A, \h66, \h9A, \hA0}

\* values the driver writes to IE (0xFFFF) and IF (0xFF0F) before it runs the
\* CPU
InterruptBytes == {\h00, \h01, \h02, \h1F}

----------------------------------------------------------------------------
(* u8 / u16 arithmetic *)

RECURSIVE BitAnd(_, _)
BitAnd(x, y) ==
    IF x = 0 \/ y = 0 THEN 0
    ELSE (x % 2) * (y % 2) + 2 * BitAnd(x \div 2, y \div 2)

BitOr(x, y) == x + y - BitAnd(x, y)

\* !x on a u8
BitNot8(x) == 255 - x

wrapping_add8(x, y) == (x + y) % 256
wrapping_sub8(x, y) == (x - y + 256) % 256
wrapping_add16(x, y) == (x + y) % 65536
wrapping_sub16(x, y) == (x - y + 65536) % 65536

\* ((high as u16) << 8) | (low as u16)
Pair(high, low) == high * 256 + low
\* (value >> 8) as u8, (value & 0xFF) as u8
HighByte(value) == value \div 256
LowByte(value) == value % 256

\* `x as i8 as u16` and `x as i8 as i16 as u16`: sign extension to 16 bits
SignExtend16(x) == IF x >= \h80 THEN x + \hFF00 ELSE x

\* sparse arrays with fill value 0
At(arr, i) == IF i \in DOMAIN arr THEN arr[i] ELSE 0
Put(arr, i, v) == [j \in (DOMAIN arr) \cup {i} |-> IF j = i THEN v ELSE arr[j]]

----------------------------------------------------------------------------
(* mmu.rs *)

\* what read_byte yields when `self.rom[addr as usize]` is out of bounds
Panic == -1

MMU_new(rom_data) ==
    [rom |-> rom_data, wram |-> <<>>, hram |-> <<>>, ie |-> 0, interrupt_flag |-> 0]

read_byte_NoMirror(u, addr) ==
    CASE addr \in \h0000..\h7FFF ->
            IF addr < u.rom.len THEN At(u.rom.bytes, addr) ELSE Panic
      [] addr \in \hC000..\hDFFF -> At(u.wram, addr - \hC000)
      [] addr \in \hFF80..\hFFFE -> At(u.hram, addr - \hFF80)
      [] addr = \hFFFF -> u.ie
      [] addr = \hFF0F -> u.interrupt_flag
      [] OTHER -> \hFF

read_byte_UnmappedZero(u, addr) ==
    CASE addr \in \h0000..\h7FFF ->
            IF addr < u.rom.len THEN At(u.rom.bytes, addr) ELSE Panic
      [] addr \in \hC000..\hDFFF -> At(u.wram, addr - \hC000)
      [] addr \in \hE000..\hFDFF -> At(u.wram, addr - \hE000)
      [] addr \in \hFF80..\hFFFE -> At(u.hram, addr - \hFF80)
      [] addr = \hFFFF -> u.ie
      [] addr = \hFF0F -> u.interrupt_flag
      [] OTHER -> \h00

read_byte(u, addr) ==
    CASE addr \in \h0000..\h7FFF ->
            IF addr < u.rom.len THEN At(u.rom.bytes, addr) ELSE Panic
      [] addr \in \hC000..\hDFFF -> At(u.wram, addr - \hC000)
      [] addr \in \hE000..\hFDFF -> At(u.wram, addr - \hE000)
      [] addr \in \hFF80..\hFFFE -> At(u.hram, addr - \hFF80)
      [] addr = \hFFFF -> u.ie
      [] addr = \hFF0F -> u.interrupt_flag
      [] OTHER -> \hFF

write_byte_RomWritable(u, addr, value) ==
    CASE addr \in \h0000..\h7FFF ->
            [u EXCEPT !.rom.bytes = Put(u.rom.bytes, addr, value)]
      [] addr \in \hC000..\hDFFF -> [u EXCEPT !.wram = Put(u.wram, addr - \hC000, value)]
      [] addr \in \hE000..\hFDFF -> [u EXCEPT !.wram = Put(u.wram, addr - \hE000, value)]
      [] addr \in \hFF80..\hFFFE -> [u EXCEPT !.hram = Put(u.hram, addr - \hFF80, value)]
      [] addr = \hFFFF -> [u EXCEPT !.ie = value]
      [] addr = \hFF0F -> [u EXCEPT !.interrupt_flag = value]
      [] OTHER -> u

write_byte(u, addr, value) ==
    CASE addr \in \hC000..\hDFFF -> [u EXCEPT !.wram = Put(u.wram, addr - \hC000, value)]
      [] addr \in \hE000..\hFDFF -> [u EXCEPT !.wram = Put(u.wram, addr - \hE000, value)]
      [] addr \in \hFF80..\hFFFE -> [u EXCEPT !.hram = Put(u.hram, addr - \hFF80, value)]
      [] addr = \hFFFF -> [u EXCEPT !.ie = value]
      [] addr = \hFF0F -> [u EXCEPT !.interrupt_flag = value]
      [] OTHER -> u

----------------------------------------------------------------------------
(* cpu.rs: Registers, CPU *)

Registers_new ==
    [a |-> \h01, f |-> \hB0, b |-> \h00, c |-> \h13, d |-> \h00, e |-> \hD8,
     h |-> \h01, l |-> \h4D, sp |-> \hFFFE, pc |-> \h0100]

\* The CPU value the helpers below transform: the fields of struct CPU, and
\* whether a panic has unwound out of the call.
CPU_new(u) ==
    [regs |-> Registers_new, mmu |-> u, stopped |-> FALSE, halted |-> FALSE,
     ime |-> TRUE, panicked |-> FALSE]

Abort(m) == [m EXCEPT !.panicked = TRUE]

\* the outcome of a read inside a CPU method: the value read and the CPU
\* afterwards (unwound when the ROM index is out of bounds)
Loaded(m, v) ==
    IF v = Panic THEN [value |-> 0, m |-> Abort(m)] ELSE [value |-> v, m |-> m]

\* self.mmu.read_byte(addr)
Load(m, addr) == Loaded(m, read_byte(m.mmu, addr))

\* self.mmu.write_byte(addr, value)
Store(m, addr, value) == [m EXCEPT !.mmu = write_byte(m.mmu, addr, value)]

\* `if cond { self.regs.f |= bit; }`
SetIf(cond, f, bit) == IF cond THEN BitOr(f, bit) ELSE f

\* the statements after a read r = [value, m]: nothing when the read unwound,
\* otherwise the CPU `next`
AndThen(r, next) == IF r.m.panicked THEN r.m ELSE next

fetch_NoWrap_pc(m, r) ==
    IF r.m.panicked THEN r
    ELSE [value |-> r.value, m |-> [m EXCEPT !.regs.pc = m.regs.pc + 1]]

fetch_NoWrap(m) == fetch_NoWrap_pc(m, Load(m, m.regs.pc))

\* fetch after its read r: self.regs.pc = self.regs.pc.wrapping_add(1); opcode
fetch_pc(m, r) ==
    IF r.m.panicked THEN r
    ELSE [value |-> r.value, m |-> [m EXCEPT !.regs.pc = wrapping_add16(m.regs.pc, 1)]]

fetch(m) == fetch_pc(m, Load(m, m.regs.pc))

ld_r16mem(m, r16_high, r16_low) ==
    Store(m, Pair(r16_high, r16_low), m.regs.a)

\* ld_a_r16mem after its read r: self.regs.a = value
ld_a_value(m, r) == AndThen(r, [m EXCEPT !.regs.a = r.value])

ld_a_r16mem(m, r16_high, r16_low) ==
    ld_a_value(m, Load(m, Pair(r16_high, r16_low)))

get_inc_r16_value(r16_high, r16_low) == wrapping_add16(Pair(r16_high, r16_low), 1)

get_dec_r16_value(r16_high, r16_low) == wrapping_sub16(Pair(r16_high, r16_low), 1)

add_hl_flags_ClearsZ(f, hl, value) ==
    SetIf(hl + value > \hFFFF,
          SetIf(BitAnd(hl, \h0FFF) + BitAnd(value, \h0FFF) > \h0FFF, \h00, \h20),
          \h10)

\* the flags add_hl_r16 leaves
add_hl_flags(f, hl, value) ==
    SetIf(hl + value > \hFFFF,
          SetIf(BitAnd(hl, \h0FFF) + BitAnd(value, \h0FFF) > \h0FFF,
                BitAnd(f, \h80), \h20),
          \h10)

\* add_hl_r16 once value and hl are read
add_hl_value(m, hl, value) ==
    [m EXCEPT !.regs.f = add_hl_flags(m.regs.f, hl, value),
              !.regs.h = HighByte(wrapping_add16(hl, value)),
              !.regs.l = LowByte(wrapping_add16(hl, value))]

add_hl_r16(m, r16_high, r16_low, register_type) ==
    add_hl_value(m, Pair(m.regs.h, m.regs.l),
                 IF register_type = "SP" THEN m.regs.sp ELSE Pair(r16_high, r16_low))

\* the register a RegisterType names, for the 8-bit types
GetR8(m, register_type) ==
    CASE register_type = "A" -> m.regs.a
      [] register_type = "B" -> m.regs.b
      [] register_type = "C" -> m.regs.c
      [] register_type = "D" -> m.regs.d
      [] register_type = "E" -> m.regs.e
      [] register_type = "H" -> m.regs.h
      [] register_type = "L" -> m.regs.l
      [] OTHER -> 0

SetR8(m, register_type, result) ==
    CASE register_type = "A" -> [m EXCEPT !.regs.a = result]
      [] register_type = "B" -> [m EXCEPT !.regs.b = result]
      [] register_type = "C" -> [m EXCEPT !.regs.c = result]
      [] register_type = "D" -> [m EXCEPT !.regs.d = result]
      [] register_type = "E" -> [m EXCEPT !.regs.e = result]
      [] register_type = "H" -> [m EXCEPT !.regs.h = result]
      [] register_type = "L" -> [m EXCEPT !.regs.l = result]
      [] OTHER -> m

\* the first match of inc_r8 / dec_r8: the operand, and the CPU (unwound when
\* the read of [HL] panics)
Operand8(m, register_type) ==
    IF register_type = "HL" THEN Load(m, Pair(m.regs.h, m.regs.l))
    ELSE [value |-> GetR8(m, register_type), m |-> m]

\* the last match of inc_r8 / dec_r8
WriteBack8(m, register_type, result) ==
    IF register_type = "HL" THEN Store(m, Pair(m.regs.h, m.regs.l), result)
    ELSE SetR8(m, register_type, result)

inc_flags_NoHalfCarry(f, value) ==
    SetIf(wrapping_add8(value, 1) = \h00, BitAnd(f, \h10), \h80)

\* the flags inc_r8 leaves
inc_flags(f, value) ==
    SetIf(BitAnd(value, \h0F) = \h0F,
          SetIf(wrapping_add8(value, 1) = \h00, BitAnd(f, \h10), \h80),
          \h20)

\* inc_r8 after its read r
inc_value(m, register_type, r) ==
    AndThen(r, WriteBack8([m EXCEPT !.regs.f = inc_flags(m.regs.f, r.value)],
                          register_type, wrapping_add8(r.value, 1)))

inc_r8(m, register_type) == inc_value(m, register_type, Operand8(m, register_type))

\* the flags dec_r8 leaves
dec_flags(f, value) ==
    SetIf(BitAnd(value, \h10) = \h10,
          BitOr(SetIf(wrapping_sub8(value, 1) = \h00, BitAnd(f, \h10), \h80), \h40),
          \h20)

\* dec_r8 after its read r
dec_value(m, register_type, r) ==
    AndThen(r, WriteBack8([m EXCEPT !.regs.f = dec_flags(m.regs.f, r.value)],
                          register_type, wrapping_sub8(r.value, 1)))

dec_r8(m, register_type) == dec_value(m, register_type, Operand8(m, register_type))

\* `self.regs.a += value`: Rust's checked `+` on u8
AddAssignA(m, value) ==
    IF m.regs.a + value > \hFF /\ overflow_checks THEN Abort(m)
    ELSE [m EXCEPT !.regs.a = wrapping_add8(m.regs.a, value)]

\* `self.regs.a -= value`: Rust's checked `-` on u8
SubAssignA(m, value) ==
    IF m.regs.a - value < 0 /\ overflow_checks THEN Abort(m)
    ELSE [m EXCEPT !.regs.a = wrapping_sub8(m.regs.a, value)]

add_a_Overwrites(m, r8_value) == [m EXCEPT !.regs.a = r8_value]

add_a(m, r8_value) == AddAssignA(m, r8_value)

adc_flags_NoHalfCarry(a, r8_value, carry) ==
    SetIf(a + r8_value + carry > \hFF,
          SetIf(wrapping_add8(wrapping_add8(a, r8_value), carry) = 0, \h00, \h80),
          \h10)

\* the flags adc_a leaves
adc_flags(a, r8_value, carry) ==
    SetIf(a + r8_value + carry > \hFF,
          SetIf(BitAnd(a, \h0F) + BitAnd(r8_value, \h0F) + carry > \h0F,
                SetIf(wrapping_add8(wrapping_add8(a, r8_value), carry) = 0, \h00, \h80),
                \h20),
          \h10)

\* adc_a once a and carry are read
adc_carry(m, a, r8_value, carry) ==
    [m EXCEPT !.regs.f = adc_flags(a, r8_value, carry),
              !.regs.a = wrapping_add8(wrapping_add8(a, r8_value), carry)]

adc_a_NoCarryIn(m, r8_value) == adc_carry(m, m.regs.a, r8_value, 0)

adc_a(m, r8_value) ==
    adc_carry(m, m.regs.a, r8_value, IF BitAnd(m.regs.f, \h10) # 0 THEN 1 ELSE 0)

\* rlca / rla once the bit rotated in (carry) and out (a_msb) are read
rotate_left(m, a, carry, a_msb) ==
    [m EXCEPT !.regs.a = BitOr((a * 2) % 256, carry),
              !.regs.f = SetIf(a_msb = 1, \h00, \h10)]

\* rrca / rra once the bit rotated in (carry) and out (a_lsb) are read
rotate_right(m, a, carry, a_lsb) ==
    [m EXCEPT !.regs.a = BitOr(a \div 2, (carry * 128) % 256),
              !.regs.f = SetIf(a_lsb = 1, \h00, \h10)]

rlca(m) ==
    rotate_left(m, m.regs.a, BitAnd(m.regs.a, \h80) \div 128, BitAnd(m.regs.a, \h80) \div 128)

rrca(m) ==
    rotate_right(m, m.regs.a, BitAnd(m.regs.a, \h01), BitAnd(m.regs.a, \h01))

rla_NoCarryIn(m) ==
    rotate_left(m, m.regs.a, BitAnd(m.regs.a, \h80) \div 128, BitAnd(m.regs.a, \h80) \div 128)

rla(m) ==
    rotate_left(m, m.regs.a, BitAnd(m.regs.f, \h10) \div 16, BitAnd(m.regs.a, \h80) \div 128)

rra(m) ==
    rotate_right(m, m.regs.a, BitAnd(m.regs.f, \h10) \div 16, BitAnd(m.regs.a, \h01))

\* daa once correction and carry are chosen
daa_apply(m, correction, carry, a) ==
    [m EXCEPT !.regs.a = a,
              !.regs.f = BitAnd(SetIf(carry,
                                      SetIf(a = 0, BitAnd(m.regs.f, BitOr(\h10, \h40)), \h80),
                                      \h10),
                                BitNot8(\h20))]

daa_high_AlwaysAdds(m, c0, high) ==
    daa_apply(m, IF high THEN BitOr(c0, \h60) ELSE c0, high,
              wrapping_add8(m.regs.a, IF high THEN BitOr(c0, \h60) ELSE c0))

\* daa: the second `if` (0x60, carry) and the add or subtract
daa_high(m, c0, high) ==
    daa_apply(m, IF high THEN BitOr(c0, \h60) ELSE c0, high,
              IF BitAnd(m.regs.f, \h40) = 0
              THEN wrapping_add8(m.regs.a, IF high THEN BitOr(c0, \h60) ELSE c0)
              ELSE wrapping_sub8(m.regs.a, IF high THEN BitOr(c0, \h60) ELSE c0))

daa(m) ==
    daa_high(m,
             IF BitAnd(m.regs.f, \h20) # 0 \/ BitAnd(m.regs.a, \h0F) > 9
             THEN BitOr(0, \h06) ELSE 0,
             BitAnd(m.regs.f, \h10) # 0 \/ m.regs.a > \h99)

cpl_SetsLowNibble(m) ==
    [m EXCEPT !.regs.a = BitNot8(m.regs.a), !.regs.f = BitOr(m.regs.f, \h6F)]

cpl(m) ==
    [m EXCEPT !.regs.a = BitNot8(m.regs.a), !.regs.f = BitOr(m.regs.f, \h60)]

scf(m) ==
    [m EXCEPT !.regs.f = BitAnd(BitOr(m.regs.f, \h10), BitNot8(\h60))]

ccf(m) ==
    [m EXCEPT !.regs.f =
        BitAnd(IF BitAnd(m.regs.f, \h10) # 0
               THEN BitAnd(m.regs.f, BitNot8(\h10))
               ELSE BitOr(m.regs.f, \h10),
               BitNot8(\h60))]

\* self.regs.pc = self.regs.pc.wrapping_add(offset), offset sign-extended
jump_relative(m, offset) ==
    [m EXCEPT !.regs.pc = wrapping_add16(m.regs.pc, SignExtend16(offset))]

\* jr_e8 after its fetch r
jr_offset(r) == AndThen(r, jump_relative(r.m, r.value))

jr_e8(m) == jr_offset(fetch(m))

\* the match on condition in jr_cond_e8: add_flg
Condition(f, condition) ==
    CASE condition = "NZ" -> BitAnd(f, \h80) = 0
      [] condition = "Z"  -> BitAnd(f, \h80) # 0
      [] condition = "NC" -> BitAnd(f, \h10) = 0
      [] condition = "C"  -> BitAnd(f, \h10) # 0

jr_cond_e8_SkipsOperand(m, condition) ==
    IF Condition(m.regs.f, condition) THEN jr_offset(fetch(m)) ELSE m

\* jr_cond_e8 after its fetch r
jr_cond_offset(r, condition) ==
    AndThen(r, IF Condition(r.m.regs.f, condition)
               THEN jump_relative(r.m, r.value) ELSE r.m)

jr_cond_e8(m, condition) == jr_cond_offset(fetch(m), condition)

stop_Halts(m) == [m EXCEPT !.halted = TRUE]

stop(m) == [m EXCEPT !.stopped = TRUE]

handle_interrupts(m) == IF m.stopped THEN [m EXCEPT !.stopped = FALSE] ELSE m

\* ld_r8_r8 after the read r of its source: the match on dst_reg
ld_r8_value(m, dst_reg, r) ==
    AndThen(r, CASE dst_reg = "A" -> [m EXCEPT !.regs.a = r.value]
                 [] dst_reg = "B" -> [m EXCEPT !.regs.b = r.value]
                 [] dst_reg = "C" -> [m EXCEPT !.regs.c = r.value]
                 [] dst_reg = "D" -> [m EXCEPT !.regs.d = r.value]
                 [] dst_reg = "E" -> [m EXCEPT !.regs.e = r.value]
                 [] dst_reg = "HL" -> Store(m, Pair(m.regs.h, m.regs.l), r.value)
                 [] OTHER -> m)

ld_r8_r8(m, dst_reg, src_reg) == ld_r8_value(m, dst_reg, Operand8(m, src_reg))

halt_ClearsWhenHalted(m) ==
    IF m.ime = TRUE THEN [m EXCEPT !.halted = ~m.halted]
    ELSE IF BitAnd(read_byte(m.mmu, \hFFFF), read_byte(m.mmu, \hFF0F)) # 0
         THEN [m EXCEPT !.halted = FALSE]
         ELSE m

halt(m) ==
    IF m.ime = TRUE THEN [m EXCEPT !.halted = TRUE]
    ELSE IF BitAnd(read_byte(m.mmu, \hFFFF), read_byte(m.mmu, \hFF0F)) # 0
         THEN [m EXCEPT !.halted = FALSE]
         ELSE m

----------------------------------------------------------------------------
(* cpu.rs: CPU::execute *)

fetch16_HighFirst_both(hi, lo) ==
    [low |-> lo.value, high |-> hi.value,
     m |-> IF hi.m.panicked THEN hi.m ELSE lo.m]

fetch16_HighFirst_low(hi) == fetch16_HighFirst_both(hi, fetch(hi.m))

fetch16_HighFirst(m) == fetch16_HighFirst_low(fetch(m))

\* after `let low = self.fetch(); let high = self.fetch();`: the two bytes, and
\* the CPU (unwound when either read panics)
fetch16_both(lo, hi) ==
    [low |-> lo.value, high |-> hi.value,
     m |-> IF lo.m.panicked THEN lo.m ELSE hi.m]

fetch16_high(lo) == fetch16_both(lo, fetch(lo.m))

fetch16(m) == fetch16_high(fetch(m))

SetHL(m, hl) == [m EXCEPT !.regs.h = HighByte(hl), !.regs.l = LowByte(hl)]

\* 0x03, 0x0B: INC BC / DEC BC
SetBC(m, value) == [m EXCEPT !.regs.b = HighByte(value), !.regs.c = LowByte(value)]

\* 0x13, 0x1B: INC DE / DEC DE
SetDE(m, value) == [m EXCEPT !.regs.d = HighByte(value), !.regs.e = LowByte(value)]

ld_hl_a_step_PreIncrement(m, addr, hl) == SetHL(Store(m, hl, m.regs.a), hl)

\* 0x22, 0x32: LD [HL+], A / LD [HL-], A, hl the new value of HL
ld_hl_a_step(m, addr, hl) == SetHL(Store(m, addr, m.regs.a), hl)

\* 0x2A, 0x3A: LD A, [HL+] / LD A, [HL-], m1 the CPU after ld_a_r16mem
ld_a_hl_step(m1, hl) == IF m1.panicked THEN m1 ELSE SetHL(m1, hl)

\* 0x08 after the first write: `addr + 1` is Rust's checked `+` on u16
ld_imm16_sp_high(m1, addr, sp_high) ==
    IF addr + 1 > \hFFFF
    THEN IF overflow_checks THEN Abort(m1)
         ELSE Store(m1, (addr + 1) % 65536, sp_high)
    ELSE Store(m1, addr + 1, sp_high)

\* 0x08 after its fetches r
ld_imm16_sp_at(r, addr) ==
    AndThen(r, ld_imm16_sp_high(Store(r.m, addr, BitAnd(r.m.regs.sp, \hFF)),
                                addr, r.m.regs.sp \div 256))

ld_imm16_sp_fetched(r) == ld_imm16_sp_at(r, Pair(r.high, r.low))

\* 0x08 LD [imm16], SP
ld_imm16_sp(m) == ld_imm16_sp_fetched(fetch16(m))

\* 0x86 ADD A, (HL)
add_a_value(m, r) == AndThen(r, AddAssignA(m, r.value))

add_a_hl(m) == add_a_value(m, Load(m, Pair(m.regs.h, m.regs.l)))

\* 0x3E, 0x06, 0x0E, 0x16, 0x1E, 0x26, 0x2E: LD r, n
ld_r8_fetched(r, register_type) == AndThen(r, SetR8(r.m, register_type, r.value))

ld_r8_n(m, register_type) == ld_r8_fetched(fetch(m), register_type)

\* 0x36 LD [HL], n
ld_hl_fetched(r, addr) == AndThen(r, Store(r.m, addr, r.value))

ld_hl_n(m) == ld_hl_fetched(fetch(m), Pair(m.regs.h, m.regs.l))

\* 0xC3 JP nn
jp_fetched(r) == AndThen(r, [r.m EXCEPT !.regs.pc = Pair(r.high, r.low)])

jp_nn(m) == jp_fetched(fetch16(m))

\* 0xC6 ADD A, n
add_a_fetched(r) == AndThen(r, AddAssignA(r.m, r.value))

add_a_n(m) == add_a_fetched(fetch(m))

\* 0xD6 SUB A, n
sub_a_fetched(r) == AndThen(r, SubAssignA(r.m, r.value))

sub_a_n(m) == sub_a_fetched(fetch(m))

\* 0x01, 0x11, 0x21, 0x31: LD BC / DE / HL / SP, nn
ld_r16_fetched(r, register_type) ==
    AndThen(r,
            CASE register_type = "BC" -> [r.m EXCEPT !.regs.b = r.high, !.regs.c = r.low]
              [] register_type = "DE" -> [r.m EXCEPT !.regs.d = r.high, !.regs.e = r.low]
              [] register_type = "HL" -> [r.m EXCEPT !.regs.h = r.high, !.regs.l = r.low]
              [] register_type = "SP" -> [r.m EXCEPT !.regs.sp = Pair(r.high, r.low)])

ld_r16_nn(m, register_type) == ld_r16_fetched(fetch16(m), register_type)

\* 0xE0 LDH (n), A
ldh_n_fetched(r) == AndThen(r, Store(r.m, BitOr(\hFF00, r.value), r.m.regs.a))

ldh_n_a(m) == ldh_n_fetched(fetch(m))

\* 0xEA LDH (nn), A
ldh_nn_fetched(r) == AndThen(r, Store(r.m, Pair(r.high, r.low), r.m.regs.a))

ldh_nn_a(m) == ldh_nn_fetched(fetch16(m))

ldh_a_c_NoPage(m) == ld_a_value(m, Load(m, m.regs.c))

\* 0xF2 LDH A, (C)
ldh_a_c(m) == ld_a_value(m, Load(m, BitOr(\hFF00, m.regs.c)))

\* the RegisterType arguments of the arms 0x40..0x7F, by the opcode's bits 5-3
\* (destination) and 2-0 (source)
LdOperand(i) ==
    CASE i = 0 -> "B" [] i = 1 -> "C" [] i = 2 -> "D" [] i = 3 -> "E"
      [] i = 4 -> "H" [] i = 5 -> "L" [] i = 6 -> "HL" [] i = 7 -> "A"

\* the opcodes execute has an arm for
Implemented ==
    {\h00, \h02, \h12, \h22, \h32, \h0A, \h1A, \h2A, \h3A, \h08,
     \h03, \h13, \h23, \h33, \h0B, \h1B, \h2B, \h3B,
     \h09, \h19, \h29, \h39,
     \h3C, \h04, \h0C, \h14, \h1C, \h24, \h2C, \h34,
     \h3D, \h05, \h0D, \h15, \h1D, \h25, \h2D, \h35,
     \h3E, \h06, \h0E, \h16, \h1E, \h26, \h2E, \h36,
     \h07, \h0F, \h17, \h1F, \h27, \h2F, \h37, \h3F,
     \h18, \h20, \h28, \h30, \h38, \h10,
     \hC3, \hC6, \hD6, \h01, \h11, \h21, \h31, \hE2, \hE0, \hEA, \hF2}
    \cup (\h40..\h7F) \cup (\h80..\h8D)

execute_DefaultHalts(m, op) == [m EXCEPT !.halted = TRUE]

execute_DefaultDisables(m, op) == [m EXCEPT !.ime = FALSE]

execute_Default(m, op) == m

execute(m, op) ==
    CASE op = \h00 -> m
      [] op = \h02 -> ld_r16mem(m, m.regs.b, m.regs.c)
      [] op = \h12 -> ld_r16mem(m, m.regs.d, m.regs.e)
      [] op = \h22 -> ld_hl_a_step(m, Pair(m.regs.h, m.regs.l),
                                   wrapping_add16(Pair(m.regs.h, m.regs.l), 1))
      [] op = \h32 -> ld_hl_a_step(m, Pair(m.regs.h, m.regs.l),
                                   wrapping_sub16(Pair(m.regs.h, m.regs.l), 1))
      [] op = \h0A -> ld_a_r16mem(m, m.regs.b, m.regs.c)
      [] op = \h1A -> ld_a_r16mem(m, m.regs.d, m.regs.e)
      [] op = \h2A -> ld_a_hl_step(ld_a_r16mem(m, m.regs.h, m.regs.l),
                                   wrapping_add16(Pair(m.regs.h, m.regs.l), 1))
      [] op = \h3A -> ld_a_hl_step(ld_a_r16mem(m, m.regs.h, m.regs.l),
                                   wrapping_sub16(Pair(m.regs.h, m.regs.l), 1))
      [] op = \h08 -> ld_imm16_sp(m)
      [] op = \h03 -> SetBC(m, get_inc_r16_value(m.regs.b, m.regs.c))
      [] op = \h13 -> SetDE(m, get_inc_r16_value(m.regs.d, m.regs.e))
      [] op = \h23 -> SetHL(m, get_inc_r16_value(m.regs.h, m.regs.l))
      [] op = \h33 -> [m EXCEPT !.regs.sp = wrapping_add16(m.regs.sp, 1)]
      [] op = \h0B -> SetBC(m, get_dec_r16_value(m.regs.b, m.regs.c))
      [] op = \h1B -> SetDE(m, get_dec_r16_value(m.regs.d, m.regs.e))
      [] op = \h2B -> SetHL(m, get_dec_r16_value(m.regs.h, m.regs.l))
      [] op = \h3B -> [m EXCEPT !.regs.sp = wrapping_sub16(m.regs.sp, 1)]
      [] op = \h09 -> add_hl_r16(m, m.regs.b, m.regs.c, "BC")
      [] op = \h19 -> add_hl_r16(m, m.regs.d, m.regs.e, "DE")
      [] op = \h29 -> add_hl_r16(m, m.regs.h, m.regs.l, "HL")
      [] op = \h39 -> add_hl_r16(m, 0, 0, "SP")
      [] op = \h3C -> inc_r8(m, "A")
      [] op = \h04 -> inc_r8(m, "B")
      [] op = \h0C -> inc_r8(m, "C")
      [] op = \h14 -> inc_r8(m, "D")
      [] op = \h1C -> inc_r8(m, "E")
      [] op = \h24 -> inc_r8(m, "H")
      [] op = \h2C -> inc_r8(m, "L")
      [] op = \h34 -> inc_r8(m, "HL")
      [] op = \h3D -> dec_r8(m, "A")
      [] op = \h05 -> dec_r8(m, "B")
      [] op = \h0D -> dec_r8(m, "C")
      [] op = \h15 -> dec_r8(m, "D")
      [] op = \h1D -> dec_r8(m, "E")
      [] op = \h25 -> dec_r8(m, "H")
      [] op = \h2D -> dec_r8(m, "L")
      [] op = \h35 -> dec_r8(m, "HL")
      [] op = \h80 -> add_a(m, m.regs.b)
      [] op = \h81 -> add_a(m, m.regs.c)
      [] op = \h82 -> add_a(m, m.regs.d)
      [] op = \h83 -> add_a(m, m.regs.e)
      [] op = \h84 -> add_a(m, m.regs.h)
      [] op = \h85 -> add_a(m, m.regs.l)
      [] op = \h86 -> add_a_hl(m)
      [] op = \h87 -> add_a(m, m.regs.a)
      [] op = \h88 -> adc_a(m, m.regs.b)
      [] op = \h89 -> adc_a(m, m.regs.c)
      [] op = \h8A -> adc_a(m, m.regs.d)
      [] op = \h8B -> adc_a(m, m.regs.e)
      [] op = \h8C -> adc_a(m, m.regs.h)
      [] op = \h8D -> adc_a(m, m.regs.l)
      [] op = \h3E -> ld_r8_n(m, "A")
      [] op = \h06 -> ld_r8_n(m, "B")
      [] op = \h0E -> ld_r8_n(m, "C")
      [] op = \h16 -> ld_r8_n(m, "D")
      [] op = \h1E -> ld_r8_n(m, "E")
      [] op = \h26 -> ld_r8_n(m, "H")
      [] op = \h2E -> ld_r8_n(m, "L")
      [] op = \h36 -> ld_hl_n(m)
      [] op = \h07 -> rlca(m)
      [] op = \h0F -> rrca(m)
      [] op = \h17 -> rla(m)
      [] op = \h1F -> rra(m)
      [] op = \h27 -> daa(m)
      [] op = \h2F -> cpl(m)
      [] op = \h37 -> scf(m)
      [] op = \h3F -> ccf(m)
      [] op = \h18 -> jr_e8(m)
      [] op = \h20 -> jr_cond_e8(m, "NZ")
      [] op = \h28 -> jr_cond_e8(m, "Z")
      [] op = \h30 -> jr_cond_e8(m, "NC")
      [] op = \h38 -> jr_cond_e8(m, "C")
      [] op = \h10 -> stop(m)
      [] op = \h76 -> halt(m)
      [] op \in (\h40..\h7F) \ {\h76} ->
            ld_r8_r8(m, LdOperand((op - \h40) \div 8), LdOperand((op - \h40) % 8))
      [] op = \hC3 -> jp_nn(m)
      [] op = \hC6 -> add_a_n(m)
      [] op = \hD6 -> sub_a_n(m)
      [] op = \h01 -> ld_r16_nn(m, "BC")
      [] op = \h11 -> ld_r16_nn(m, "DE")
      [] op = \h21 -> ld_r16_nn(m, "HL")
      [] op = \h31 -> ld_r16_nn(m, "SP")
      [] op = \hE2 -> Store(m, BitOr(\hFF00, m.regs.c), m.regs.a)
      [] op = \hE0 -> ldh_n_a(m)
      [] op = \hEA -> ldh_nn_a(m)
      [] op = \hF2 -> ldh_a_c(m)
      [] OTHER -> execute_Default(m, op)

\* step after its fetch r: self.execute(opcode)
step_opcode(r) == AndThen(r, execute(r.m, r.value))

step(m) == step_opcode(fetch(m))

----------------------------------------------------------------------------
(* The ROM images handed to MMU::new, and the driver of main.rs *)

\* opcodes whose arm fetches one operand byte / two operand bytes
Imm8Ops == {\h3E, \h06, \h0E, \h16, \h1E, \h26, \h2E, \h36,
            \h18, \h20, \h28, \h30, \h38, \hC6, \hD6, \hE0}
Imm16Ops == {\h08, \hC3, \h01, \h11, \h21, \h31, \hEA}

\* every instruction: an opcode and the operand bytes its arm fetches
Instructions ==
    {<<op>> : op \in (0..255) \ (Imm8Ops \cup Imm16Ops)}
    \cup {<<op, n>> : op \in Imm8Ops, n \in ImmBytes}
    \cup {<<op, LowByte(w), HighByte(w)>> : op \in Imm16Ops, w \in ImmWords}

\* one-byte instructions that take the flags of Registers::new (F = 0xB0) to
\* each combination of Z and C: NOP (Z C), CCF (Z), INC B (C), ADC A,B (none)
FlagSetups == {\h00, \h3F, \h04, \h88}

\* bytes placed from address `at` on
Place(at, bytes) == [i \in at..(at + Len(bytes) - 1) |-> bytes[i - at + 1]]

\* f and g, disjoint, as one sparse array
Merge(f, g) == [i \in (DOMAIN f) \cup (DOMAIN g) |-> IF i \in DOMAIN f THEN f[i] ELSE g[i]]

\* the instruction under test at the entry point 0x0100, run on the registers
\* of Registers::new
EntryProgram(ins) == Place(\h0100, ins)

\* the opcodes that read A, B or the flags: the block 0x00-0x3F, the ALU block
\* 0x80-0x8F, ADD/SUB A,n and the LDH / LD (nn),A stores and loads
RegisterOps == (\h00..\h3F) \cup (\h80..\h8F) \cup {\hC6, \hD6, \hE0, \hE2, \hEA, \hF2}

\* set the flags (fs), load A and B (ab), then run the instruction under test
RegisterProgram(fs, ab, ins) ==
    Place(\h0100, <<fs, \h3E, ab[1], \h06, ab[2]>> \o ins)

\* store an opcode in IE (0xFFFF) and jump to it, so that the instruction
\* under test is fetched at 0xFFFF and its operands at 0x0000, 0x0001:
\* LD A,op; LDH (0xFF),A; JP 0xFFFF
WrapProgram(ins) ==
    Merge(Place(\h0100, <<\h3E, ins[1], \hE0, \hFF, \hC3, \hFF, \hFF>>),
          Place(\h0000, Tail(ins)))

\* one-byte opcodes that read or write the byte at [HL]
HLOps ==
    {\h34, \h35, \h86, \h22, \h32, \h2A, \h3A,
     \h46, \h4E, \h56, \h5E, \h66, \h6E, \h7E}
    \cup ((\h70..\h77) \ {\h76})

\* point HL at w, store n there, then run the instruction under test:
\* LD HL,w; LD [HL],n; instruction
MemoryProgram(w, n, ins) ==
    Place(\h0100, <<\h21, LowByte(w), HighByte(w), \h36, n>> \o ins)

\* the opcodes of the control state: STOP, HALT
ControlOps == {\h10, \h76}

\* a control instruction, then the instruction under test
ControlProgram(first, ins) == Place(\h0100, <<first>> \o ins)

\* pairs of one-byte instructions that take the flags of Registers::new to N
\* without C: CCF; DEC B (F = 0x40) and CCF; CPL (F = 0xE0)
DaaSetups == {<<\h3F, \h05>>, <<\h3F, \h2F>>}

\* set the flags (fs), load A, then DAA
DaaProgram(fs, a) == Place(\h0100, fs \o <<\h3E, a, \h27>>)

\* the opcodes ADD HL,BC / DE / HL / SP
AddHLOps == {\h09, \h19, \h29, \h39}

\* load HL with w1 and the pair rr that op adds with w2 (LD rr,nn is op - 8),
\* then run op: LD HL,w1; LD rr,w2; ADD HL,rr
AddHLProgram(w1, w2, op) ==
    Place(\h0100, <<\h21, LowByte(w1), HighByte(w1),
                    op - 8, LowByte(w2), HighByte(w2), op>>)

\* store v at 0xFF00|n with LDH (n),A (direct) or LDH (C),A, overwrite A, then
\* load it back: LD A,v; LD C,n; LDH (n),A or LDH (C),A; LD A,0xA5; LDH A,(C)
ZeroPageProgram(v, n, direct) ==
    Place(\h0100, <<\h3E, v, \h0E, n>>
                  \o (IF direct THEN <<\hE0, n>> ELSE <<\hE2>>)
                  \o <<\h3E, \hA5, \hF2>>)

\* one-byte instructions that take the flags of Registers::new to C set (SCF)
\* and C clear (CCF)
CarrySetups == {\h37, \h3F}

\* set the carry (fs), load A with x and B with y, add with carry, adjust:
\* SCF or CCF; LD A,x; LD B,y; ADC A,B; DAA
BcdProgram(fs, x, y) ==
    Place(\h0100, <<fs, \h3E, x, \h06, y, \h88, \h27>>)

\* the byte sequence of the end-to-end scenario
ScenarioProgram == Place(\h0100, <<\h3E, \h42, \h06, \h10, \h80, \h11, \h90, \h11>>)

\* the program main writes into rom_data
MainProgram ==
    Place(\h0100, <<\h3E, \h20, \h06, \h01, \h0E, \h02, \h16, \h03, \h1E, \h04,
                    \h26, \hFF, \h2E, \h81, \hEA, \h81, \hFF, \h86,
                    \hC3, \h00, \h01>>)

\* vec![0x00; len] with the program written over it, as far as it fits
RomImage(len, program) ==
    [len |-> len,
     bytes |-> [i \in {j \in DOMAIN program : j < len} |-> program[i]]]

\* the driver holds cpu, and has not called step() yet
Start(cpu) ==
    /\ regs = cpu.regs
    /\ mmu = cpu.mmu
    /\ stopped = cpu.stopped
    /\ halted = cpu.halted
    /\ ime = cpu.ime
    /\ pre = cpu

\* the CPU of main: CPU::new(MMU::new(rom_data))
Boot(rom_data) == Start(CPU_new(MMU_new(rom_data)))

\* a driver that sets up the interrupt side before it runs the CPU: it
\* writes IE and IF through MMU::write_byte and sets the pub field ime
BootInterrupts(rom_data, enable, flag, master) ==
    Start([CPU_new(write_byte(write_byte(MMU_new(rom_data), \hFFFF, enable),
                              \hFF0F, flag))
           EXCEPT !.ime = master])

\* every program in a ROM of the full 0x8000 bytes, and the last family in
\* each of the other lengths
Init ==
    /\ \E ins \in Instructions :
          \/ Boot(RomImage(\h8000, EntryProgram(ins)))
          \/ /\ ins[1] \in RegisterOps
             /\ \E fs \in FlagSetups, ab \in ABPairs :
                   Boot(RomImage(\h8000, RegisterProgram(fs, ab, ins)))
          \/ \E len \in RomLens : Boot(RomImage(len, WrapProgram(ins)))
          \/ /\ ins[1] \in HLOps
             /\ \E w \in MemWords, n \in ImmBytes :
                   Boot(RomImage(\h8000, MemoryProgram(w, n, ins)))
          \/ \E first \in ControlOps :
                Boot(RomImage(\h8000, ControlProgram(first, ins)))
          \/ /\ ins[1] = \h27
             /\ \E fs \in DaaSetups, a \in DaaValues :
                   Boot(RomImage(\h8000, DaaProgram(fs, a)))
          \/ /\ ins[1] \in AddHLOps
             /\ \E w1 \in AddWords, w2 \in AddWords :
                   Boot(RomImage(\h8000, AddHLProgram(w1, w2, ins[1])))
          \/ /\ ins[1] = \hF2
             /\ \E v \in ZeroPageValues, n \in ZeroPageBytes, direct \in BOOLEAN :
                   Boot(RomImage(\h8000, ZeroPageProgram(v, n, direct)))
          \/ /\ ins[1] = \h80
             /\ \/ Boot(RomImage(\h8000, ScenarioProgram))
                \/ Boot(RomImage(\h8000, MainProgram))
    /\ panicked = FALSE
    /\ overflow_checks \in BOOLEAN
    /\ steps = 0

\* the CPU the driver holds
Cpu ==
    [regs |-> regs, mmu |-> mmu, stopped |-> stopped, halted |-> halted,
     ime |-> ime, panicked |-> panicked]

\* the driver's cpu after the call: the fields of r, the CPU that step() leaves
Assign(r) ==
    /\ regs' = r.regs
    /\ mmu' = r.mmu
    /\ stopped' = r.stopped
    /\ halted' = r.halted
    /\ ime' = r.ime
    /\ panicked' = r.panicked

\* cpu.step() in the loop of main
Step ==
    /\ ~panicked
    /\ steps < MaxSteps
    /\ Assign(step(Cpu))
    /\ pre' = Cpu
    /\ steps' = steps + 1
    /\ UNCHANGED overflow_checks

Next == Step

Spec == Init /\ [][Next]_vars

\* the BCD additions: every pair of packed-BCD bytes with either carry
InitBcd ==
    /\ \E fs \in CarrySetups, x \in BcdBytes, y \in BcdBytes :
          Boot(RomImage(\h8000, BcdProgram(fs, x, y)))
    /\ panicked = FALSE
    /\ overflow_checks \in BOOLEAN
    /\ steps = 0

SpecBcd == InitBcd /\ [][Next]_vars

\* the control instructions, run by the driver that sets up the interrupt side
InitInterrupts ==
    /\ \E first \in ControlOps, second \in ControlOps \cup {\h00},
          enable \in InterruptBytes, flag \in InterruptBytes, master \in BOOLEAN :
          BootInterrupts(RomImage(\h8000, ControlProgram(first, <<second>>)),
                         enable, flag, master)
    /\ panicked = FALSE
    /\ overflow_checks \in BOOLEAN
    /\ steps = 0

\* the external wake signal: cpu.handle_interrupts()
Wake ==
    /\ ~panicked
    /\ Assign(handle_interrupts(Cpu))
    /\ UNCHANGED <<pre, steps, overflow_checks>>

NextInterrupts == Step \/ Wake

SpecInterrupts == InitInterrupts /\ [][NextInterrupts]_vars

----------------------------------------------------------------------------
(* What the last step() did, read from the CPU it was called on *)

Stepped == steps > 0

\* the byte the last step() fetched as its opcode, Panic when that read unwound
Opcode == read_byte(pre.mmu, pre.regs.pc)

\* the bytes after the opcode
Operand1 == read_byte(pre.mmu, (pre.regs.pc + 1) % 65536)
Operand2 == read_byte(pre.mmu, (pre.regs.pc + 2) % 65536)
Imm16 == Operand2 * 256 + Operand1

\* the last step() dispatched opcode op
Ran(op) == Stepped /\ Opcode = op

\* the last step() returned to the driver
Returned == Stepped /\ ~panicked

\* the flags of an F value
FlagZ(f) == (f \div 128) % 2 = 1
FlagN(f) == (f \div 64) % 2 = 1
FlagH(f) == (f \div 32) % 2 = 1
FlagC(f) == (f \div 16) % 2 = 1

\* region boundaries of the address table, and their neighbours
ProbeAddrs ==
    {\h0000, \h0105, \h7FFF, \h8000, \h9FFF, \hBFFF, \hC000, \hC005, \hDFFF,
     \hE000, \hE005, \hFDFF, \hFE00, \hFF00, \hFF0E, \hFF0F, \hFF10, \hFF7F,
     \hFF80, \hFFFE, \hFFFF}

IsRom(addr) == addr \in \h0000..\h7FFF
IsMapped(addr) ==
    \/ addr \in \h0000..\h7FFF
    \/ addr \in \hC000..\hDFFF
    \/ addr \in \hE000..\hFDFF
    \/ addr \in \hFF80..\hFFFE
    \/ addr = \hFF0F
    \/ addr = \hFFFF

----------------------------------------------------------------------------
(* C1 *)

\* the work-RAM offsets that were written, and the ends of the mirrored range
MirrorOffsets == {k \in (DOMAIN mmu.wram) \cup {\h0000, \h0005, \h1DFF} : k < \h1E00}

\* C1: every offset k in [0, 0x1E00) reads the same through 0xC000+k and
\* 0xE000+k, and a value stored through one of the two addresses (LD (nn),A,
\* opcode 0xEA) is what the other address reads after the step.
C1_Mirroring ==
    /\ \A k \in MirrorOffsets :
          read_byte(mmu, \hC000 + k) = read_byte(mmu, \hE000 + k)
    /\ (Returned /\ Opcode = \hEA /\ Imm16 \in \hC000..\hDDFF)
          => read_byte(mmu, Imm16 + \h2000) = pre.regs.a
    /\ (Returned /\ Opcode = \hEA /\ Imm16 \in \hE000..\hFDFF)
          => read_byte(mmu, Imm16 - \h2000) = pre.regs.a

C1_Witness ==
    /\ Returned /\ Opcode = \hEA /\ Imm16 = \hE005
    /\ pre.regs.a = \h20
    /\ read_byte(mmu, \hC005) = \h20

----------------------------------------------------------------------------
(* C2 *)

ReadsAByte(u, addr) ==
    /\ read_byte(u, addr) \in 0..255
    /\ ~IsMapped(addr) => read_byte(u, addr) = \hFF

\* C2 as stated: whatever the length of the ROM buffer, read_byte returns a
\* byte for every address, and 0xFF for every unmapped one.
C2_TotalForAnyRom == \A addr \in ProbeAddrs : ReadsAByte(mmu, addr)

\* C2 amended: when the ROM buffer spans at least 0x8000 bytes, read_byte
\* returns a byte for every address, and 0xFF for every unmapped one.
C2_TotalForFullRom ==
    mmu.rom.len >= \h8000 => \A addr \in ProbeAddrs : ReadsAByte(mmu, addr)

\* an opcode fetched through read_byte at the unmapped address 0x8000
C2_Witness ==
    /\ mmu.rom.len >= \h8000
    /\ Returned /\ pre.regs.pc = \h8000 /\ Opcode = \hFF
    /\ regs.pc = \h8001

----------------------------------------------------------------------------
(* C3 *)

\* C3: write_byte to a ROM or unmapped address returns the MMU unchanged; a
\* step() that stores A there (LD (nn),A) leaves the MMU as it was; and no
\* step() changes the ROM image or what a ROM or unmapped address reads.
C3_DroppedWrites ==
    /\ \A addr \in ProbeAddrs : \A value \in {\h00, \h7A} :
          (IsRom(addr) \/ ~IsMapped(addr)) => write_byte(mmu, addr, value) = mmu
    /\ (Returned /\ Opcode = \hEA /\ (IsRom(Imm16) \/ ~IsMapped(Imm16)))
          => mmu = pre.mmu
    /\ Stepped => mmu.rom = pre.mmu.rom
    /\ Stepped => \A addr \in ProbeAddrs :
          (IsRom(addr) \/ ~IsMapped(addr))
              => read_byte(mmu, addr) = read_byte(pre.mmu, addr)

\* LD (0x0105),A with A = 0xFF: address 0x0105 still reads the opcode 0xEA
C3_Witness ==
    /\ Returned /\ Opcode = \hEA /\ Imm16 = \h0105
    /\ pre.regs.a = \hFF
    /\ read_byte(mmu, \h0105) = \hEA

----------------------------------------------------------------------------
(* C4 *)

\* C4: a step() that fetches an opcode with no arm returns, with PC advanced
\* by one (mod 2^16) and every other register, the flags, the memory and
\* halted / stopped / ime as they were.
C4_UnknownOpcodeIsNop ==
    (Stepped /\ Opcode # Panic /\ Opcode \notin Implemented)
        => /\ ~panicked
           /\ regs = [pre.regs EXCEPT !.pc = (pre.regs.pc + 1) % 65536]
           /\ mmu = pre.mmu
           /\ halted = pre.halted
           /\ stopped = pre.stopped
           /\ ime = pre.ime

\* 0xD3 run at the entry point, with a step() left to the driver
C4_Witness ==
    /\ Returned /\ Opcode = \hD3
    /\ pre.regs.pc = \h0100 /\ regs.pc = \h0101
    /\ steps < MaxSteps

----------------------------------------------------------------------------
(* C5 *)

JumpOps == {\hC3, \h18, \h20, \h28, \h30, \h38}

\* operand bytes of an opcode: 2 for the 16-bit immediate forms, 1 for the
\* 8-bit immediate forms, 0 otherwise
OperandBytes(op) == IF op \in Imm16Ops THEN 2 ELSE IF op \in Imm8Ops THEN 1 ELSE 0

\* C5: a step() that returns from an implemented opcode other than JP / JR
\* leaves PC = (PC before + 1 + operand bytes) mod 2^16.
C5_FixedLength ==
    (Returned /\ Opcode \in Implemented \ JumpOps)
        => regs.pc = (pre.regs.pc + 1 + OperandBytes(Opcode)) % 65536

\* LD BC,nn fetched at 0xFFFF, its operands at 0x0000 and 0x0001
C5_Witness ==
    /\ Returned /\ Opcode = \h01
    /\ pre.regs.pc = \hFFFF /\ regs.pc = \h0002

----------------------------------------------------------------------------
(* C6 *)

\* the displacement byte as a signed number
Signed8(d) == IF d >= 128 THEN d - 256 ELSE d

\* whether the relative jump op is taken with flags f
JrTaken(op, f) ==
    CASE op = \h18 -> TRUE
      [] op = \h20 -> ~FlagZ(f)
      [] op = \h28 -> FlagZ(f)
      [] op = \h30 -> ~FlagC(f)
      [] op = \h38 -> FlagC(f)

\* C6: after JR e8 / JR cc,e8 at address p with displacement byte d, PC is
\* (p + 2 + signext(d)) mod 2^16 when the jump is taken and (p + 2) mod 2^16
\* when it is not, and F is unchanged.
C6_RelativeJump ==
    (Returned /\ Opcode \in {\h18, \h20, \h28, \h30, \h38})
        => /\ regs.f = pre.regs.f
           /\ regs.pc = IF JrTaken(Opcode, pre.regs.f)
                        THEN (pre.regs.pc + 2 + Signed8(Operand1) + 65536) % 65536
                        ELSE (pre.regs.pc + 2) % 65536

\* JR NZ,-128 with Z set: not taken, PC advanced by 2
C6_Witness ==
    /\ Returned /\ Opcode = \h20 /\ Operand1 = \h80
    /\ FlagZ(pre.regs.f)
    /\ regs.pc = pre.regs.pc + 2

\* JR C,-128 with C set: taken backwards
C6_WitnessTaken ==
    /\ Returned /\ Opcode = \h38 /\ Operand1 = \h80
    /\ FlagC(pre.regs.f)
    /\ regs.pc = pre.regs.pc + 2 - 128

----------------------------------------------------------------------------
(* C7 *)

\* C7: with immediate bytes lo, hi after the opcode, JP nn leaves
\* PC = (hi<<8)|lo, LD SP,nn leaves SP = (hi<<8)|lo, and LD BC/DE/HL,nn leave
\* hi in the high register and lo in the low one, the pair composing to nn.
C7_LittleEndianImm16 ==
    LET lo == Operand1
        hi == Operand2
        nn == hi * 256 + lo
    IN  /\ (Returned /\ Opcode = \hC3) => regs.pc = nn
        /\ (Returned /\ Opcode = \h31) => regs.sp = nn
        /\ (Returned /\ Opcode = \h01) =>
              regs.b = hi /\ regs.c = lo /\ Pair(regs.b, regs.c) = nn
        /\ (Returned /\ Opcode = \h11) =>
              regs.d = hi /\ regs.e = lo /\ Pair(regs.d, regs.e) = nn
        /\ (Returned /\ Opcode = \h21) =>
              regs.h = hi /\ regs.l = lo /\ Pair(regs.h, regs.l) = nn

\* LD BC,0x1234 (bytes 01 34 12): B = 0x12, C = 0x34
C7_Witness ==
    /\ Returned /\ Opcode = \h01 /\ Operand1 = \h34 /\ Operand2 = \h12
    /\ regs.b = \h12 /\ regs.c = \h34

----------------------------------------------------------------------------
(* C8, C9 *)

AddOps == (\h80..\h87) \cup {\hC6}

\* the 8-bit operand v of the ADD / ADC / SUB opcode the last step() ran
AluOperand ==
    CASE Opcode \in {\h80, \h88} -> pre.regs.b
      [] Opcode \in {\h81, \h89} -> pre.regs.c
      [] Opcode \in {\h82, \h8A} -> pre.regs.d
      [] Opcode \in {\h83, \h8B} -> pre.regs.e
      [] Opcode \in {\h84, \h8C} -> pre.regs.h
      [] Opcode \in {\h85, \h8D} -> pre.regs.l
      [] Opcode = \h86 -> read_byte(pre.mmu, pre.regs.h * 256 + pre.regs.l)
      [] Opcode = \h87 -> pre.regs.a
      [] Opcode \in {\hC6, \hD6} -> Operand1

\* C8: ADD A,r / ADD A,(HL) / ADD A,n complete and leave A = (A + v) mod 256,
\* and SUB A,n completes and leaves A = (A - v) mod 256, whatever A and v.
C8_NoArithmeticFault ==
    /\ (Stepped /\ Opcode \in AddOps /\ AluOperand # Panic)
          => ~panicked /\ regs.a = (pre.regs.a + AluOperand) % 256
    /\ (Stepped /\ Opcode = \hD6 /\ AluOperand # Panic)
          => ~panicked /\ regs.a = (pre.regs.a - AluOperand + 256) % 256

\* C9: ADD A,r / ADD A,(HL) / ADD A,n leave Z = (result is 0), N = 0,
\* H = carry out of bit 3, C = carry out of bit 7; SUB A,n leaves
\* Z = (result is 0), N = 1, H = borrow into bit 4, C = (n > A).
C9_AddSubFlags ==
    LET a == pre.regs.a
        v == AluOperand
    IN  /\ (Returned /\ Opcode \in AddOps) =>
              /\ FlagZ(regs.f) <=> (a + v) % 256 = 0
              /\ ~FlagN(regs.f)
              /\ FlagH(regs.f) <=> (a % 16) + (v % 16) > 15
              /\ FlagC(regs.f) <=> a + v > 255
        /\ (Returned /\ Opcode = \hD6) =>
              /\ FlagZ(regs.f) <=> (a - v + 256) % 256 = 0
              /\ FlagN(regs.f)
              /\ FlagH(regs.f) <=> (a % 16) < (v % 16)
              /\ FlagC(regs.f) <=> v > a

----------------------------------------------------------------------------
(* C10 *)

\* C10: ADC A,r with incoming carry c (bit 4 of F) leaves A = (A + v + c)
\* mod 256, Z = (that result is 0), N clear, H = carry out of bit 3 of
\* A + v + c, C = carry out of bit 7.
C10_AdcCarry ==
    LET a == pre.regs.a
        v == AluOperand
        c == (pre.regs.f \div 16) % 2
    IN  (Returned /\ Opcode \in \h88..\h8D) =>
            /\ regs.a = (a + v + c) % 256
            /\ FlagZ(regs.f) <=> (a + v + c) % 256 = 0
            /\ ~FlagN(regs.f)
            /\ FlagH(regs.f) <=> (a % 16) + (v % 16) + c > 15
            /\ FlagC(regs.f) <=> a + v + c > 255

\* A = 0x20, F = 0x10, B = 0xFF, ADC A,B: A = 0x20, Z clear, H set, C set
C10_Witness ==
    /\ Returned /\ Opcode = \h88
    /\ pre.regs.a = \h20 /\ pre.regs.f = \h10 /\ pre.regs.b = \hFF
    /\ regs.a = \h20 /\ regs.f = \h30

----------------------------------------------------------------------------
(* C11, C12 *)

IncOps == {\h04, \h0C, \h14, \h1C, \h24, \h2C, \h34, \h3C}
DecOps == {\h05, \h0D, \h15, \h1D, \h25, \h2D, \h35, \h3D}

\* bits 5-3 of an INC / DEC opcode: 0 B, 1 C, 2 D, 3 E, 4 H, 5 L, 6 [HL], 7 A
IncDecTarget == (Opcode \div 8) % 8

RegisterOf(r, i) ==
    CASE i = 0 -> r.b [] i = 1 -> r.c [] i = 2 -> r.d [] i = 3 -> r.e
      [] i = 4 -> r.h [] i = 5 -> r.l [] i = 7 -> r.a

\* the address in HL when the last step() was called
HLBefore == pre.regs.h * 256 + pre.regs.l

\* a store to addr is kept
IsWritable(addr) == IsMapped(addr) /\ ~IsRom(addr)

\* the operand of the INC / DEC the last step() ran, before and after it
IncDecBefore ==
    IF IncDecTarget = 6 THEN read_byte(pre.mmu, HLBefore)
    ELSE RegisterOf(pre.regs, IncDecTarget)
IncDecAfter ==
    IF IncDecTarget = 6 THEN read_byte(mmu, HLBefore)
    ELSE RegisterOf(regs, IncDecTarget)

\* the operand is a register or a byte that keeps what is stored to it
IncDecKept == IncDecTarget = 6 => IsWritable(HLBefore)

\* C11: DEC on the operand v (a register, or [HL] where stores are kept)
\* leaves (v - 1) mod 256, Z set iff that is 0, N set, C unchanged, and H set
\* iff the low nibble of v is 0 (borrow into bit 4).
C11_DecLaw ==
    (Returned /\ Opcode \in DecOps) =>
        LET v == IncDecBefore
        IN  /\ IncDecKept => IncDecAfter = (v + 255) % 256
            /\ FlagZ(regs.f) <=> (v + 255) % 256 = 0
            /\ FlagN(regs.f)
            /\ FlagC(regs.f) <=> FlagC(pre.regs.f)
            /\ FlagH(regs.f) <=> v % 16 = 0

\* C12: INC on the operand v (a register, or [HL] where stores are kept)
\* leaves (v + 1) mod 256, Z set iff that is 0, N clear, C unchanged, and H
\* set iff the low nibble of v was 0x0F.
C12_IncLaw ==
    (Returned /\ Opcode \in IncOps) =>
        LET v == IncDecBefore
        IN  /\ IncDecKept => IncDecAfter = (v + 1) % 256
            /\ FlagZ(regs.f) <=> (v + 1) % 256 = 0
            /\ ~FlagN(regs.f)
            /\ FlagC(regs.f) <=> FlagC(pre.regs.f)
            /\ FlagH(regs.f) <=> v % 16 = 15

\* INC [HL] on 0xFF in work RAM: 0x00 with Z and H set
C12_Witness ==
    /\ Returned /\ Opcode = \h34
    /\ HLBefore = \hC005 /\ IncDecBefore = \hFF
    /\ IncDecAfter = \h00 /\ FlagZ(regs.f) /\ FlagH(regs.f)

\* INC B on 0x01 with only Z set before: 0x02 with every flag clear
C12_WitnessRegister ==
    /\ Returned /\ Opcode = \h04
    /\ pre.regs.b = \h01 /\ pre.regs.f = \h80
    /\ regs.b = \h02 /\ regs.f = \h00

----------------------------------------------------------------------------
(* C13 *)

\* the CPU runs the ROM of the end-to-end scenario
InScenario == mmu.rom = RomImage(\h8000, ScenarioProgram)

\* C13 as the spec words it: with the ROM bytes 3E 42 06 10 80 11 90 11 at
\* 0x0100, A is 0x00 at the start, 0x42 after one and two steps, 0x53 after
\* three, 0x42 after four, and PC is then 0x0108.
C13_Scenario ==
    InScenario =>
        /\ steps = 0 => regs.a = \h00 /\ regs.pc = \h0100
        /\ steps = 1 => regs.a = \h42
        /\ steps = 2 => regs.a = \h42
        /\ steps = 3 => regs.a = \h53
        /\ steps = 4 => regs.a = \h42 /\ regs.pc = \h0108

\* C13, amended: with those ROM bytes A is 0x01 at the start, 0x42 after
\* LD A,0x42 and after LD B,0x10, 0x52 after 0x80 (ADD A,B) and still 0x52
\* after 0x11 0x90 0x11 (LD DE,0x1190), and PC is then 0x0108.
C13_ScenarioAsRun ==
    InScenario =>
        /\ ~panicked
        /\ steps = 0 => regs.a = \h01 /\ regs.pc = \h0100
        /\ steps = 1 => regs.a = \h42 /\ regs.pc = \h0102
        /\ steps = 2 => regs.a = \h42 /\ regs.b = \h10 /\ regs.pc = \h0104
        /\ steps = 3 => regs.a = \h52 /\ regs.pc = \h0105
        /\ steps = 4 => /\ regs.a = \h52 /\ regs.pc = \h0108
                        /\ regs.d = \h11 /\ regs.e = \h90

\* the scenario after its four steps
C13_Witness ==
    /\ InScenario /\ steps = 4 /\ Opcode = \h11
    /\ regs.a = \h52 /\ regs.pc = \h0108

----------------------------------------------------------------------------
(* C14 - C17: the control state *)

\* IE & IF (the bytes at 0xFFFF and 0xFF0F) when the last step() was called
PendingBefore == BitAnd(read_byte(pre.mmu, \hFFFF), read_byte(pre.mmu, \hFF0F))

\* C14: HALT executed with ime = false leaves the CPU not halted when
\* IE & IF is not 0, and halted when it is 0.
C14_HaltInterruptsDisabled ==
    (Returned /\ Opcode = \h76 /\ ~pre.ime) =>
        (halted <=> PendingBefore = 0)

\* the transition is a step() call that ran opcode op and returned
StepRan(op) == steps' = steps + 1 /\ ~panicked' /\ Opcode' = op

\* C15: HALT executed with ime = true leaves the CPU halted, and no later
\* step() call clears halted while ime stays true.
C15_HaltSticks ==
    [][ /\ (StepRan(\h76) /\ ime) => halted'
        /\ (halted /\ ime /\ steps' = steps + 1) => halted' ]_vars

\* a step() call was made on a halted CPU and left it halted
C15_Witness ==
    /\ Returned /\ steps >= 2
    /\ pre.ime /\ pre.halted /\ halted

\* C16: STOP leaves the CPU stopped, and a transition that clears stopped is
\* not a step() call: it is the wake signal.
C16_StopSticks ==
    [][ /\ StepRan(\h10) => stopped'
        /\ (stopped /\ steps' = steps + 1) => stopped'
        /\ (stopped /\ ~stopped') => (steps' = steps /\ UNCHANGED <<regs, mmu, halted, ime, pre>>) ]_vars

\* a step() call was made on a stopped CPU and left it stopped
C16_Witness ==
    /\ Returned /\ steps >= 2
    /\ pre.stopped /\ stopped

\* the wake signal has cleared stopped after a step() call made while stopped
C16_WitnessWake ==
    /\ Returned /\ steps >= 2
    /\ pre.stopped /\ Opcode # \h10 /\ ~stopped

\* C17: halted and stopped are never both set.
C17_OneControlState == ~(halted /\ stopped)

----------------------------------------------------------------------------
(* C18 *)

\* C18: the lower nibble of F is zero.
C18_LowNibbleZero == regs.f % 16 = 0

\* CPL has written F: 0xB0 -> 0xF0
C18_Witness ==
    /\ Returned /\ Opcode = \h2F
    /\ pre.regs.f = \hB0 /\ regs.f = \hF0

----------------------------------------------------------------------------
(* C19 *)

RotateOps == {\h07, \h0F, \h17, \h1F}

\* C19: RLCA / RRCA / RLA / RRA leave Z, N, H clear and C equal to the bit
\* rotated out of A (bit 7 for left, bit 0 for right); RLCA / RRCA rotate that
\* bit back in, RLA / RRA rotate in the carry from before the instruction.
C19_Rotates ==
    (Returned /\ Opcode \in RotateOps) =>
        LET a == pre.regs.a
            c == (pre.regs.f \div 16) % 2
            left == Opcode \in {\h07, \h17}
            out == IF left THEN a \div 128 ELSE a % 2
            rotated_in == IF Opcode \in {\h07, \h0F} THEN out ELSE c
        IN  /\ regs.f = 16 * out
            /\ regs.a = IF left THEN ((2 * a) % 256) + rotated_in
                                ELSE (a \div 2) + (128 * rotated_in)

\* RLA on A = 0x0F with C set: A = 0x1F, C clear
C19_Witness ==
    /\ Returned /\ Opcode = \h17
    /\ pre.regs.a = \h0F /\ FlagC(pre.regs.f)
    /\ regs.a = \h1F /\ regs.f = \h00

\* RRCA on A = 0xFF: A = 0xFF, C set
C19_WitnessCircular ==
    /\ Returned /\ Opcode = \h0F
    /\ pre.regs.a = \hFF /\ ~FlagC(pre.regs.f)
    /\ regs.a = \hFF /\ regs.f = \h10

----------------------------------------------------------------------------
(* C20 *)

\* C20: DAA applies a correction of 0x06 and / or 0x60, with 0x06 in it when
\* H was set and 0x60 when C was set, added to A when N was clear and
\* subtracted when N was set, modulo 256; it leaves Z set iff the corrected A
\* is 0, H clear, N unchanged, and C set iff 0x60 was applied.
C20_Daa ==
    (Returned /\ Opcode = \h27) =>
        \E low \in BOOLEAN, high \in BOOLEAN :
            LET a == pre.regs.a
                correction == (IF low THEN 6 ELSE 0) + (IF high THEN 96 ELSE 0)
                result == IF FlagN(pre.regs.f)
                          THEN (a + 256 - correction) % 256
                          ELSE (a + correction) % 256
            IN  /\ FlagH(pre.regs.f) => low
                /\ FlagC(pre.regs.f) => high
                /\ regs.a = result
                /\ FlagZ(regs.f) <=> result = 0
                /\ ~FlagH(regs.f)
                /\ FlagN(regs.f) <=> FlagN(pre.regs.f)
                /\ FlagC(regs.f) <=> high

\* DAA on A = 0x9A with only N set: 0x66 is subtracted, A = 0x34, C set
C20_Witness ==
    /\ Returned /\ Opcode = \h27
    /\ pre.regs.a = \h9A /\ pre.regs.f = \h40
    /\ regs.a = \h34 /\ regs.f = \h50

\* DAA on A = 0xFF with no flag set: 0x66 is added, A = 0x65, C set
C20_WitnessAdd ==
    /\ Returned /\ Opcode = \h27
    /\ pre.regs.a = \hFF /\ pre.regs.f = \h00
    /\ regs.a = \h65 /\ regs.f = \h10

\* DAA on A = 0x00 with no flag set: nothing is applied, Z set
C20_WitnessZero ==
    /\ Returned /\ Opcode = \h27
    /\ pre.regs.a = \h00 /\ pre.regs.f = \h00
    /\ regs.a = \h00 /\ regs.f = \h80

----------------------------------------------------------------------------
(* C21 *)

\* the pair rr that the ADD HL,rr of the last step() added
AddHLSource ==
    CASE Opcode = \h09 -> pre.regs.b * 256 + pre.regs.c
      [] Opcode = \h19 -> pre.regs.d * 256 + pre.regs.e
      [] Opcode = \h29 -> pre.regs.h * 256 + pre.regs.l
      [] Opcode = \h39 -> pre.regs.sp

\* C21: ADD HL,rr leaves HL = (HL + rr) mod 2^16, Z unchanged, N clear, H set
\* iff (HL & 0x0FFF) + (rr & 0x0FFF) > 0x0FFF, C set iff HL + rr > 0xFFFF, and
\* every register other than H, L and F unchanged.
C21_AddHL ==
    (Returned /\ Opcode \in AddHLOps) =>
        LET hl == HLBefore
            rr == AddHLSource
        IN  /\ regs.h * 256 + regs.l = (hl + rr) % 65536
            /\ FlagZ(regs.f) <=> FlagZ(pre.regs.f)
            /\ ~FlagN(regs.f)
            /\ FlagH(regs.f) <=> (hl % 4096) + (rr % 4096) > 4095
            /\ FlagC(regs.f) <=> hl + rr > 65535
            /\ regs.b = pre.regs.b /\ regs.c = pre.regs.c
            /\ regs.d = pre.regs.d /\ regs.e = pre.regs.e
            /\ regs.sp = pre.regs.sp /\ regs.a = pre.regs.a

\* ADD HL,BC on 0x0FFF + 0x0001: HL = 0x1000, H set, C clear, Z kept
C21_Witness ==
    /\ Returned /\ Opcode = \h09
    /\ HLBefore = \h0FFF /\ AddHLSource = \h0001 /\ FlagZ(pre.regs.f)
    /\ regs.h = \h10 /\ regs.l = \h00 /\ regs.f = \hA0

\* ADD HL,SP on 0x8000 + 0x8000: HL = 0x0000, C set, H clear
C21_WitnessCarry ==
    /\ Returned /\ Opcode = \h39
    /\ HLBefore = \h8000 /\ AddHLSource = \h8000
    /\ regs.h = \h00 /\ regs.l = \h00 /\ regs.f = \h90

----------------------------------------------------------------------------
(* C22 *)

LdOps == (\h40..\h7F) \ {\h76}

\* bits 5-3 and 2-0 of an LD dst,src opcode, numbered as IncDecTarget
LdDestination == ((Opcode - 64) \div 8) % 8
LdSource == Opcode % 8

\* the value of the source when the last step() was called
LdValue ==
    IF LdSource = 6 THEN read_byte(pre.mmu, HLBefore)
    ELSE RegisterOf(pre.regs, LdSource)

\* C22: for every opcode 0x40-0x7F except 0x76, LD dst,src leaves dst (a
\* register, or [HL] where stores are kept) equal to the value src had before,
\* and every other register and the flags unchanged.
C22_RegisterLoads ==
    (Returned /\ Opcode \in LdOps) =>
        /\ IF LdDestination = 6
           THEN IsWritable(HLBefore) => read_byte(mmu, HLBefore) = LdValue
           ELSE RegisterOf(regs, LdDestination) = LdValue
        /\ \A i \in {0, 1, 2, 3, 4, 5, 7} \ {LdDestination} :
              RegisterOf(regs, i) = RegisterOf(pre.regs, i)
        /\ regs.f = pre.regs.f
        /\ regs.sp = pre.regs.sp

----------------------------------------------------------------------------
(* C23 *)

\* C23: LD [HL+],A and LD [HL-],A write A to the address HL held before (where
\* stores are kept), LD A,[HL+] and LD A,[HL-] load A from that address;
\* afterwards HL is the old HL + 1 (the + forms) or - 1 (the - forms) modulo
\* 2^16, and the flags are unchanged.
C23_HLPostStep ==
    (Returned /\ Opcode \in {\h22, \h32, \h2A, \h3A}) =>
        /\ Opcode \in {\h22, \h32} =>
              /\ IsWritable(HLBefore) => read_byte(mmu, HLBefore) = pre.regs.a
              /\ regs.a = pre.regs.a
        /\ Opcode \in {\h2A, \h3A} =>
              /\ regs.a = read_byte(pre.mmu, HLBefore)
              /\ mmu = pre.mmu
        /\ regs.h * 256 + regs.l =
              IF Opcode \in {\h22, \h2A} THEN (HLBefore + 1) % 65536
              ELSE (HLBefore + 65535) % 65536
        /\ regs.f = pre.regs.f

\* LD [HL+],A at HL = 0xFFFF: IE receives A and HL wraps to 0x0000
C23_Witness ==
    /\ Returned /\ Opcode = \h22
    /\ HLBefore = \hFFFF /\ pre.regs.a = \h01 /\ read_byte(pre.mmu, \hFFFF) # \h01
    /\ read_byte(mmu, \hFFFF) = \h01 /\ regs.h = \h00 /\ regs.l = \h00

\* LD A,[HL-] at HL = 0x0000: A receives the ROM byte and HL wraps to 0xFFFF
C23_WitnessLoad ==
    /\ Returned /\ Opcode = \h3A
    /\ HLBefore = \h0000 /\ pre.regs.a = \h01
    /\ regs.a = \h00 /\ regs.h = \hFF /\ regs.l = \hFF

----------------------------------------------------------------------------
(* C24 *)

\* C24: LD [nn],SP, fetched from a ROM of the full size, returns, with the low
\* byte of SP at nn and the high byte at (nn + 1) mod 2^16 (where stores are
\* kept), for every nn.
C24_StoreSP ==
    (Ran(\h08) /\ pre.mmu.rom.len = \h8000) =>
        /\ ~panicked
        /\ IsWritable(Imm16) => read_byte(mmu, Imm16) = pre.regs.sp % 256
        /\ IsWritable((Imm16 + 1) % 65536) =>
              read_byte(mmu, (Imm16 + 1) % 65536) = pre.regs.sp \div 256

----------------------------------------------------------------------------
(* C25 *)

\* the zero-page addresses that keep a store: high RAM, IF, IE
ZeroPageKept(n) == (\hFF00 + n) \in (\hFF80..\hFFFE) \cup {\hFF0F, \hFFFF}

\* what a load from 0xFF00|n returns after v was stored there
ZeroPageExpected(v, n) == IF ZeroPageKept(n) THEN v ELSE \hFF

\* the value, the offset and the store form of the zero-page program in ROM
ZeroPageValue == read_byte(mmu, \h0101)
ZeroPageOffset == read_byte(mmu, \h0103)
ZeroPageDirect == read_byte(mmu, \h0104) = \hE0

\* the CPU runs a zero-page program
InZeroPage ==
    /\ mmu.rom.len = \h8000
    /\ mmu.rom = RomImage(\h8000, ZeroPageProgram(ZeroPageValue, ZeroPageOffset, ZeroPageDirect))

\* C25: LDH (C),A and LDH (n),A write A to 0xFF00|C and 0xFF00|n; a following
\* LDH A,(C) with the same C returns the stored value when 0xFF00|C is in
\* 0xFF80-0xFFFE, 0xFF0F or 0xFFFF, and 0xFF for every other C.
C25_ZeroPageRoundTrip ==
    InZeroPage =>
        LET v == ZeroPageValue
            n == ZeroPageOffset
        IN  /\ ~panicked
            /\ steps = 3 =>
                  /\ Opcode = (IF ZeroPageDirect THEN \hE0 ELSE \hE2)
                  /\ pre.regs.a = v /\ pre.regs.c = n
                  /\ read_byte(mmu, \hFF00 + n) = ZeroPageExpected(v, n)
                  /\ \A k \in ZeroPageBytes \ {n} :
                        read_byte(mmu, \hFF00 + k) = read_byte(pre.mmu, \hFF00 + k)
            /\ steps = 5 =>
                  /\ Opcode = \hF2 /\ pre.regs.a = \hA5 /\ pre.regs.c = n
                  /\ regs.a = ZeroPageExpected(v, n)

\* 0x5A stored with LDH (C),A at 0xFF80 and loaded back
C25_Witness ==
    /\ InZeroPage /\ ZeroPageValue = \h5A /\ ZeroPageOffset = \h80 /\ ~ZeroPageDirect
    /\ steps = 5 /\ Opcode = \hF2 /\ pre.regs.a = \hA5 /\ regs.a = \h5A

\* 0x5A stored with LDH (n),A at 0xFF10 is dropped: the load returns 0xFF
C25_WitnessDropped ==
    /\ InZeroPage /\ ZeroPageValue = \h5A /\ ZeroPageOffset = \h10 /\ ZeroPageDirect
    /\ steps = 5 /\ Opcode = \hF2 /\ pre.regs.a = \hA5 /\ regs.a = \hFF

----------------------------------------------------------------------------
(* C26 *)

\* the decimal number a packed-BCD byte encodes, and the byte encoding n
BcdValue(b) == (b \div 16) * 10 + (b % 16)
BcdEncode(n) == (n \div 10) * 16 + (n % 10)

\* the operands and the carry-in of the BCD program in ROM
BcdX == read_byte(mmu, \h0102)
BcdY == read_byte(mmu, \h0104)
BcdCarryIn == IF read_byte(mmu, \h0100) = \h37 THEN 1 ELSE 0

\* C26: ADC A,B with A = x, B = y packed-BCD bytes and carry-in c, followed by
\* DAA, leaves A the packed-BCD encoding of (x + y + c) mod 100, C set iff the
\* decimal sum is at least 100, and Z set iff A is 0.
C26_BcdAddition ==
    LET sum == BcdValue(BcdX) + BcdValue(BcdY) + BcdCarryIn
    IN  /\ ~panicked
        /\ steps = 4 =>
              /\ Opcode = \h88
              /\ pre.regs.a = BcdX /\ pre.regs.b = BcdY
              /\ (pre.regs.f \div 16) % 2 = BcdCarryIn
        /\ steps = 5 =>
              /\ Opcode = \h27
              /\ regs.a = BcdEncode(sum % 100)
              /\ FlagC(regs.f) <=> sum >= 100
              /\ FlagZ(regs.f) <=> regs.a = 0

\* 99 + 99 + 1 = 199: A = 0x99 with C set
C26_Witness ==
    /\ steps = 5 /\ Opcode = \h27 /\ ~panicked
    /\ BcdX = \h99 /\ BcdY = \h99 /\ BcdCarryIn = 1
    /\ regs.a = \h99 /\ FlagC(regs.f)

\* 50 + 50 = 100: A = 0x00 with C and Z set
C26_WitnessZero ==
    /\ steps = 5 /\ Opcode = \h27 /\ ~panicked
    /\ BcdX = \h50 /\ BcdY = \h50 /\ BcdCarryIn = 0
    /\ regs.a = \h00 /\ FlagC(regs.f) /\ FlagZ(regs.f)

----------------------------------------------------------------------------
(* C27 *)

\* C27: ime is true in every state reached from CPU::new by step() calls, and
\* every HALT executed found it true and left the CPU halted.
C27_InterruptsStayEnabled ==
    /\ ime
    /\ (Returned /\ Opcode = \h76) => (pre.ime /\ halted)

\* HALT fetched at 0xFFFF, with IE holding its opcode: still the enabled path
C27_Witness ==
    /\ Returned /\ Opcode = \h76 /\ pre.regs.pc = \hFFFF
    /\ read_byte(pre.mmu, \hFFFF) = \h76
    /\ ime /\ halted

====
